---- MODULE Spec2Model ----
(***************************************************************************)
(* Model of great_expectations/data_context/templates.py: the static       *)
(* jinja2 template set, the environment J2_ENV built over it and the       *)
(* entry point get_project_config_yaml.                                    *)
(*                                                                         *)
(* Text is a sequence of string tokens; the text itself is their           *)
(* concatenation (see Flat).  A template source is a sequence of nodes:    *)
(* literal data, an include directive or a variable placeholder.  Every    *)
(* line terminator of a source is a token of its own (NL), so that the     *)
(* lexer's treatment of the final newline can be modelled exactly.         *)
(***************************************************************************)
EXTENDS Integers, Sequences, FiniteSets, TLC

VARIABLES
    INSTANCE_ID,   \* templates.py:8, the module-level identifier
    mapping,       \* J2_ENV.loader.mapping: template name -> source
    cache,         \* J2_ENV.cache: template name -> source it was compiled from
    calls          \* the calls of get_project_config_yaml made so far, with their outcomes

vars == << INSTANCE_ID, mapping, cache, calls >>

----------------------------------------------------------------------------
(* Bounds of the model *)

\* number of distinct recorded calls of the entry point
MaxCalls == 2

\* include nesting depth at which the interpreter's recursion limit is hit
RecursionLimit == 4

----------------------------------------------------------------------------
(* Template sources *)

Data(s) == [kind |-> "data", v |-> s]
Include(n) == [kind |-> "include", v |-> n]
Var(k) == [kind |-> "var", v |-> k]
NL == Data("\n")

\* A TLA+ string cannot hold a backquote: in the data below the backquotes of
\* the sources (templates.py:40, 50-54) are written as apostrophes, a character
\* the sources' literal text does not use.

\* templates.py:11-15
CONFIG_VERSION_TEMPLATE ==
    << NL,
       Data("# config_version refers to the syntactic version of this config file, and is used in maintaining backwards compatibility"), NL,
       Data("# It is auto-generated and usually does not need to be changed."), NL,
       Data("config_version: 2"), NL >>

\* templates.py:18-21
ANONYMIZED_USAGE_STATISTICS_TEMPLATE ==
    << NL,
       Data("anonymous_usage_statistics:"), NL,
       Data("  enabled: "), Var("allow_anonymous_usage_statistics"), NL >>

\* the variant whose first include leaves out the ".j2" of the registry key
DATA_CONTEXT_UNIQUE_ID_PROJECT_TEMPLATE_BadInclude ==
    << NL,
       Include("config_version_template"), NL,
       Include("anonymized_usage_statistics_template.j2"), NL >>

\* templates.py:23-26
DATA_CONTEXT_UNIQUE_ID_PROJECT_TEMPLATE ==
    << NL,
       Include("config_version_template.j2"), NL,
       Include("anonymized_usage_statistics_template.j2"), NL >>

\* templates.py:28-43
PROJECT_HELP_COMMENT_TEMPLATE ==
    << NL,
       Data("# Welcome to Great Expectations! Always know what to expect from your data."), NL,
       Data("#"), NL,
       Data("# Here you can define datasources, batch kwargs generators, integrations and"), NL,
       Data("# more. This file is intended to be committed to your repo. For help with"), NL,
       Data("# configuration please:"), NL,
       Data("#   - Read our docs: https://docs.greatexpectations.io/en/latest/how_to_guides/spare_parts/data_context_reference.html#configuration"), NL,
       Data("#   - Join our slack channel: http://greatexpectations.io/slack"), NL,
       NL,
       Include("config_version_template.j2"), NL,
       NL,
       Data("# Datasources tell Great Expectations where your data lives and how to get it."), NL,
       Data("# You can use the CLI command 'great_expectations datasource new' to help you"), NL,
       Data("# add a new datasource. Read more at https://docs.greatexpectations.io/en/latest/reference/core_concepts/datasource_reference.html"), NL,
       Data("datasources: {}"), NL >>

\* templates.py:45-63
CONFIG_VARIABLES_INTRO_TEMPLATE ==
    << NL,
       Data("# This config file supports variable substitution which enables: 1) keeping"), NL,
       Data("# secrets out of source control & 2) environment-based configuration changes"), NL,
       Data("# such as staging vs prod."), NL,
       Data("#"), NL,
       Data("# When GE encounters substitution syntax (like 'my_key: ${my_value}' or"), NL,
       Data("# 'my_key: $my_value') in the great_expectations.yml file, it will attempt"), NL,
       Data("# to replace the value of 'my_key' with the value from an environment"), NL,
       Data("# variable 'my_value' or a corresponding key read from this config file,"), NL,
       Data("# which is defined through the 'config_variables_file_path'."), NL,
       Data("# Environment variables take precedence over variables defined here."), NL,
       Data("#"), NL,
       Data("# Substitution values defined here can be a simple (non-nested) value,"), NL,
       Data("# nested value such as a dictionary, or an environment variable (i.e. ${ENV_VAR})"), NL,
       Data("#"), NL,
       Data("#"), NL,
       Data("# https://docs.greatexpectations.io/en/latest/how_to_guides/configuring_data_contexts/how_to_use_a_yaml_file_or_environment_variables_to_populate_credentials.html"), NL,
       NL >>

\* templates.py:65-68
CONFIG_VARIABLES_TEMPLATE ==
    << NL,
       Include("config_variables_intro_template.j2"), NL,
       Data("instance_id: "), Var("instance_id"), NL >>

\* templates.py:70-150
PROJECT_OPTIONAL_CONFIG_COMMENT_TEMPLATE ==
    << NL,
       Include("config_variables_intro_template.j2"), NL,
       Data("config_variables_file_path: uncommitted/config_variables.yml"), NL,
       NL,
       Data("# The plugins_directory will be added to your python path for custom modules"), NL,
       Data("# used to override and extend Great Expectations."), NL,
       Data("plugins_directory: plugins/"), NL,
       NL,
       Data("# Validation Operators are customizable workflows that bundle the validation of"), NL,
       Data("# one or more expectation suites and subsequent actions. The example below"), NL,
       Data("# stores validations and send a slack notification. To read more about"), NL,
       Data("# customizing and extending these, read: https://docs.greatexpectations.io/en/latest/reference/core_concepts/validation_operators_and_actions.html"), NL,
       Data("validation_operators:"), NL,
       Data("  action_list_operator:"), NL,
       Data("    # To learn how to configure sending Slack notifications during evaluation"), NL,
       Data("    # (and other customizations), read: https://docs.greatexpectations.io/en/latest/autoapi/great_expectations/validation_operators/index.html#great_expectations.validation_operators.ActionListValidationOperator"), NL,
       Data("    class_name: ActionListValidationOperator"), NL,
       Data("    action_list:"), NL,
       Data("      - name: store_validation_result"), NL,
       Data("        action:"), NL,
       Data("          class_name: StoreValidationResultAction"), NL,
       Data("      - name: store_evaluation_params"), NL,
       Data("        action:"), NL,
       Data("          class_name: StoreEvaluationParametersAction"), NL,
       Data("      - name: update_data_docs"), NL,
       Data("        action:"), NL,
       Data("          class_name: UpdateDataDocsAction"), NL,
       Data("      # - name: send_slack_notification_on_validation_result"), NL,
       Data("      #   action:"), NL,
       Data("      #     class_name: SlackNotificationAction"), NL,
       Data("      #     # put the actual webhook URL in the uncommitted/config_variables.yml file"), NL,
       Data("      #     slack_webhook: ${validation_notification_slack_webhook}"), NL,
       Data("      #     notify_on: all # possible values: \"all\", \"failure\", \"success\""), NL,
       Data("      #     renderer:"), NL,
       Data("      #       module_name: great_expectations.render.renderer.slack_renderer"), NL,
       Data("      #       class_name: SlackRenderer"), NL,
       NL,
       Data("stores:"), NL,
       Data("# Stores are configurable places to store things like Expectations, Validations"), NL,
       Data("# Data Docs, and more. These are for advanced users only - most users can simply"), NL,
       Data("# leave this section alone."), NL,
       Data("#"), NL,
       Data("# Three stores are required: expectations, validations, and"), NL,
       Data("# evaluation_parameters, and must exist with a valid store entry. Additional"), NL,
       Data("# stores can be configured for uses such as data_docs, validation_operators, etc."), NL,
       Data("  expectations_store:"), NL,
       Data("    class_name: ExpectationsStore"), NL,
       Data("    store_backend:"), NL,
       Data("      class_name: TupleFilesystemStoreBackend"), NL,
       Data("      base_directory: expectations/"), NL,
       NL,
       Data("  validations_store:"), NL,
       Data("    class_name: ValidationsStore"), NL,
       Data("    store_backend:"), NL,
       Data("      class_name: TupleFilesystemStoreBackend"), NL,
       Data("      base_directory: uncommitted/validations/"), NL,
       NL,
       Data("  evaluation_parameter_store:"), NL,
       Data("    # Evaluation Parameters enable dynamic expectations. Read more here:"), NL,
       Data("    # https://docs.greatexpectations.io/en/latest/reference/core_concepts/evaluation_parameters.html"), NL,
       Data("    class_name: EvaluationParameterStore"), NL,
       NL,
       Data("expectations_store_name: expectations_store"), NL,
       Data("validations_store_name: validations_store"), NL,
       Data("evaluation_parameter_store_name: evaluation_parameter_store"), NL,
       NL,
       Data("data_docs_sites:"), NL,
       Data("  # Data Docs make it simple to visualize data quality in your project. These"), NL,
       Data("  # include Expectations, Validations & Profiles. The are built for all"), NL,
       Data("  # Datasources from JSON artifacts in the local repo including validations &"), NL,
       Data("  # profiles from the uncommitted directory. Read more at https://docs.greatexpectations.io/en/latest/reference/core_concepts/data_docs.html"), NL,
       Data("  local_site:"), NL,
       Data("    class_name: SiteBuilder"), NL,
       Data("    # set to false to hide how-to buttons in Data Docs"), NL,
       Data("    show_how_to_buttons: true"), NL,
       Data("    store_backend:"), NL,
       Data("        class_name: TupleFilesystemStoreBackend"), NL,
       Data("        base_directory: uncommitted/data_docs/local_site/"), NL,
       Data("    site_index_builder:"), NL,
       Data("        class_name: DefaultSiteIndexBuilder"), NL >>

\* templates.py:153-157
PROJECT_TEMPLATE_WITH_USAGE_STATISTICS_TEMPLATE ==
    << NL,
       Include("project_help_comment_template.j2"), NL,
       Include("project_optional_config_comment_template.j2"), NL,
       Include("anonymized_usage_statistics_template.j2"), NL >>

\* the variant that registers the first template under its name without ".j2"
J2_ENV_KeyWithoutSuffix ==
    ("config_version_template" :> CONFIG_VERSION_TEMPLATE)
    @@ ("anonymized_usage_statistics_template.j2" :> ANONYMIZED_USAGE_STATISTICS_TEMPLATE)
    @@ ("data_context_unique_id_project_template.j2" :> DATA_CONTEXT_UNIQUE_ID_PROJECT_TEMPLATE)
    @@ ("project_help_comment_template.j2" :> PROJECT_HELP_COMMENT_TEMPLATE)
    @@ ("config_variables_intro_template.j2" :> CONFIG_VARIABLES_INTRO_TEMPLATE)
    @@ ("config_variables_template.j2" :> CONFIG_VARIABLES_TEMPLATE)
    @@ ("project_optional_config_comment_template.j2" :> PROJECT_OPTIONAL_CONFIG_COMMENT_TEMPLATE)
    @@ ("project_template_with_usage_statistics_template.j2" :> PROJECT_TEMPLATE_WITH_USAGE_STATISTICS_TEMPLATE)

\* templates.py:160-173: the dictionary handed to DictLoader
J2_ENV ==
    ("config_version_template.j2" :> CONFIG_VERSION_TEMPLATE)
    @@ ("anonymized_usage_statistics_template.j2" :> ANONYMIZED_USAGE_STATISTICS_TEMPLATE)
    @@ ("data_context_unique_id_project_template.j2" :> DATA_CONTEXT_UNIQUE_ID_PROJECT_TEMPLATE)
    @@ ("project_help_comment_template.j2" :> PROJECT_HELP_COMMENT_TEMPLATE)
    @@ ("config_variables_intro_template.j2" :> CONFIG_VARIABLES_INTRO_TEMPLATE)
    @@ ("config_variables_template.j2" :> CONFIG_VARIABLES_TEMPLATE)
    @@ ("project_optional_config_comment_template.j2" :> PROJECT_OPTIONAL_CONFIG_COMMENT_TEMPLATE)
    @@ ("project_template_with_usage_statistics_template.j2" :> PROJECT_TEMPLATE_WITH_USAGE_STATISTICS_TEMPLATE)

----------------------------------------------------------------------------
(* Values and bindings (the keyword arguments) *)

BoolVal(x) == [ty |-> "bool", b |-> x, s |-> ""]
StrVal(x) == [ty |-> "str", b |-> FALSE, s |-> x]

\* str(value), which is what the compiled template emits for an expression
Str(v) == IF v.ty = "bool" THEN (IF v.b THEN "True" ELSE "False") ELSE v.s

NoBindings == [k \in {} |-> StrVal("")]

\* the template name argument: None or a string
NoneName == [isNone |-> TRUE, s |-> ""]
Name(x) == [isNone |-> FALSE, s |-> x]

----------------------------------------------------------------------------
(* The jinja2 environment, as far as templates.py uses it: default options  *)
(* (keep_trailing_newline=False, undefined=Undefined, auto_reload=True,     *)
(* trim_blocks=False), include without "ignore missing".                    *)

\* the variant with keep_trailing_newline=True
LexKeepTrailingNewline(source) == source

\* Environment(...) with keep_trailing_newline left at its default: the lexer
\* drops one line terminator at the very end of a source
Lex(source) ==
    IF Len(source) > 0 /\ source[Len(source)] = NL
    THEN SubSeq(source, 1, Len(source) - 1)
    ELSE source

\* the variant that reaches into the module-level identifier
ResolveGlobal(ctx, key) ==
    IF key \in DOMAIN ctx THEN Str(ctx[key])
    ELSE IF key = "instance_id" THEN INSTANCE_ID ELSE ""

\* the variant that renders a boolean as a YAML literal
ResolveYaml(ctx, key) ==
    IF key \in DOMAIN ctx
    THEN (IF ctx[key].ty = "bool" THEN (IF ctx[key].b THEN "true" ELSE "false") ELSE ctx[key].s)
    ELSE ""

\* {{ key }} under render(kwargs): the text of the bound value; a name with no
\* binding is jinja2's default Undefined, whose text is empty
Resolve(ctx, key) == IF key \in DOMAIN ctx THEN Str(ctx[key]) ELSE ""

\* the text one non-include node emits
Emit(node, ctx) == IF node.kind = "var" THEN Resolve(ctx, node.v) ELSE node.v

\* the variant with auto_reload off: a cached template is used whatever the loader holds
GetTemplateStale(c, m, name) ==
    IF name \in DOMAIN c THEN [found |-> TRUE, source |-> c[name]]
    ELSE IF name \in DOMAIN m THEN [found |-> TRUE, source |-> m[name]]
    ELSE [found |-> FALSE, source |-> << >>]

\* J2_ENV.get_template(name): the cached template while the loader still holds
\* the source it was compiled from, else the loader's source, else TemplateNotFound
GetTemplate(c, m, name) ==
    IF name \in DOMAIN c /\ name \in DOMAIN m /\ c[name] = m[name]
    THEN [found |-> TRUE, source |-> c[name]]
    ELSE IF name \in DOMAIN m THEN [found |-> TRUE, source |-> m[name]]
    ELSE [found |-> FALSE, source |-> << >>]

Max(a, b) == IF a >= b THEN a ELSE b

\* index of the first include directive of nodes at or after from, 0 when none
FirstInclude(nodes, from) ==
    LET S == {i \in from..Len(nodes) : nodes[i].kind = "include"}
    IN IF S = {} THEN 0 ELSE CHOOSE i \in S : \A j \in S : i <= j

\* what nodes[a..b] emit, none of them an include
Literal(nodes, a, b, ctx) == [k \in 1..(b - a + 1) |-> Emit(nodes[a + k - 1], ctx)]

Failure(err, missing, r) ==
    [err |-> err, missing |-> missing, text |-> << >>,
     loaded |-> r.loaded, lookups |-> r.lookups, depth |-> r.depth]

RECURSIVE RenderTemplate(_, _, _, _, _)
RECURSIVE RenderNodes(_, _, _, _, _, _)

\* the variant that renders an included template under no bindings
RenderNodesScoped(c, m, nodes, from, ctx, depth) ==
    LET i == FirstInclude(nodes, from)
    IN IF i = 0
       THEN [err |-> "", missing |-> "", text |-> Literal(nodes, from, Len(nodes), ctx),
             loaded |-> {}, lookups |-> 0, depth |-> depth]
       ELSE LET sub == RenderTemplate(c, m, nodes[i].v, NoBindings, depth + 1)
            IN IF sub.err # "" THEN sub
               ELSE LET rest == RenderNodes(c, m, nodes, i + 1, ctx, depth)
                        both == [loaded |-> sub.loaded \cup rest.loaded,
                                 lookups |-> sub.lookups + rest.lookups,
                                 depth |-> Max(sub.depth, rest.depth)]
                    IN IF rest.err # "" THEN Failure(rest.err, rest.missing, both)
                       ELSE [err |-> "", missing |-> "",
                             text |-> Literal(nodes, from, i - 1, ctx) \o sub.text \o rest.text,
                             loaded |-> both.loaded, lookups |-> both.lookups,
                             depth |-> both.depth]

\* the root render function of a compiled template, from node from on: data
\* and expressions are emitted in order; an include gets the named template and
\* emits its rendering under the same context before going on
RenderNodes(c, m, nodes, from, ctx, depth) ==
    LET i == FirstInclude(nodes, from)
    IN IF i = 0
       THEN [err |-> "", missing |-> "", text |-> Literal(nodes, from, Len(nodes), ctx),
             loaded |-> {}, lookups |-> 0, depth |-> depth]
       ELSE LET sub == RenderTemplate(c, m, nodes[i].v, ctx, depth + 1)
            IN IF sub.err # "" THEN sub
               ELSE LET rest == RenderNodes(c, m, nodes, i + 1, ctx, depth)
                        both == [loaded |-> sub.loaded \cup rest.loaded,
                                 lookups |-> sub.lookups + rest.lookups,
                                 depth |-> Max(sub.depth, rest.depth)]
                    IN IF rest.err # "" THEN Failure(rest.err, rest.missing, both)
                       ELSE [err |-> "", missing |-> "",
                             text |-> Literal(nodes, from, i - 1, ctx) \o sub.text \o rest.text,
                             loaded |-> both.loaded, lookups |-> both.lookups,
                             depth |-> both.depth]

\* J2_ENV.get_template(name).render(ctx) at include nesting depth; nesting
\* beyond the interpreter's limit raises RecursionError
RenderTemplate(c, m, name, ctx, depth) ==
    IF depth > RecursionLimit
    THEN [err |-> "RecursionError", missing |-> "", text |-> << >>,
          loaded |-> {}, lookups |-> 0, depth |-> depth]
    ELSE LET t == GetTemplate(c, m, name)
         IN IF ~t.found
            THEN [err |-> "TemplateNotFound", missing |-> name, text |-> << >>,
                  loaded |-> {}, lookups |-> 1, depth |-> depth]
            ELSE LET r == RenderNodes(c, m, Lex(t.source), 1, ctx, depth)
                 IN [r EXCEPT !.loaded = @ \cup {name}, !.lookups = @ + 1]

----------------------------------------------------------------------------
(* The entry point *)

\* the variant with the length test off by one
NameTooShortBy1(name) == name.isNone \/ Len(name.s) < 3

\* templates.py:177
NameTooShort(name) == name.isNone \/ Len(name.s) < 4

\* templates.py:176-179; kind is "null" (None returned), "text" (a string
\* returned) or "error" (an exception reaches the caller)
get_project_config_yaml(c, m, j2_template_name, kwargs) ==
    IF NameTooShort(j2_template_name)
    THEN [kind |-> "null", err |-> "", missing |-> "", text |-> << >>,
          loaded |-> {}, lookups |-> 0, depth |-> 0]
    ELSE LET r == RenderTemplate(c, m, j2_template_name.s, kwargs, 0)
         IN [kind |-> IF r.err = "" THEN "text" ELSE "error",
             err |-> r.err, missing |-> r.missing, text |-> r.text,
             loaded |-> r.loaded, lookups |-> r.lookups, depth |-> r.depth]

----------------------------------------------------------------------------
(* Inputs *)

\* templates.py:8 is a fresh uuid4 followed by os.linesep: any of these
InstanceIds == {"1b4e28ba-2fa1-41d2-883f-0016d3cca427\n", "6fa459ea-ee8a-4ca4-894e-db77e160355e\n"}

\* the template names of the interface table, which carry no ".j2"
TableNames ==
    {"config_version_template", "anonymized_usage_statistics_template",
     "data_context_unique_id_project_template", "project_help_comment_template",
     "config_variables_intro_template", "config_variables_template",
     "project_optional_config_comment_template",
     "project_template_with_usage_statistics_template"}

Names ==
    {NoneName, Name(""), Name("abc"), Name("abcd"), Name("config_version_template")}
    \cup {Name(n \o ".j2") : n \in TableNames}

BindingSets(id) ==
    { NoBindings,
      ("allow_anonymous_usage_statistics" :> BoolVal(TRUE)) @@ ("instance_id" :> StrVal("abc123")),
      ("allow_anonymous_usage_statistics" :> BoolVal(FALSE)) @@ ("instance_id" :> StrVal(id)) }

\* the inputs of the runs over a modified registry
SynNames ==
    {Name("abcd"), Name("config_version_template.j2"),
     Name("data_context_unique_id_project_template.j2")}

SynBindingSets == {NoBindings, "allow_anonymous_usage_statistics" :> BoolVal(TRUE)}

\* the sources a test puts in place of a registered one: a template that
\* includes itself, one that closes a cycle through project_help_comment_template,
\* one that includes a name the registry does not hold
SyntheticSources ==
    { << NL, Include("config_version_template.j2"), NL >>,
      << NL, Include("project_help_comment_template.j2"), NL >>,
      << NL, Include("missing_template.j2"), NL >> }

PatchNames == {"config_version_template.j2"}

----------------------------------------------------------------------------
(* Actions *)

Init ==
    /\ INSTANCE_ID \in InstanceIds
    /\ mapping = J2_ENV
    /\ cache = [n \in {} |-> << >>]
    /\ calls = {}

\* one call get_project_config_yaml(name, **ctx), recorded with the registry it ran
\* against and whether the named template was already cached, and its effect on
\* the environment's cache
Call(name, ctx) ==
    /\ Cardinality(calls) < MaxCalls
    /\ LET r == get_project_config_yaml(cache, mapping, name, ctx)
       IN /\ calls' = calls \cup
                {[name |-> name, bindings |-> ctx, reg |-> mapping,
                  cached |-> name.s \in DOMAIN cache, result |-> r]}
          /\ cache' = [n \in DOMAIN cache \cup r.loaded |->
                          IF n \in r.loaded THEN mapping[n] ELSE cache[n]]
    /\ UNCHANGED << INSTANCE_ID, mapping >>

\* a test replaces the source of a registered template (or puts the shipped one back)
Patch(n, source) ==
    /\ source # mapping[n]
    /\ mapping' = [mapping EXCEPT ![n] = source]
    /\ UNCHANGED << INSTANCE_ID, cache, calls >>

Next == \E name \in Names, ctx \in BindingSets(INSTANCE_ID) : Call(name, ctx)

\* the program as shipped
Spec == Init /\ [][Next]_vars

NextSynthetic ==
    \/ \E name \in SynNames, ctx \in SynBindingSets : Call(name, ctx)
    \/ \E n \in PatchNames : \E source \in SyntheticSources \cup {J2_ENV[n]} : Patch(n, source)

\* the program with its registry modified for a test
SpecSynthetic == Init /\ [][NextSynthetic]_vars

----------------------------------------------------------------------------
(* Vocabulary of the properties *)

IncludesOf(source) == {source[i].v : i \in {j \in 1..Len(source) : source[j].kind = "include"}}
VarsOf(source) == {source[i].v : i \in {j \in 1..Len(source) : source[j].kind = "var"}}

RECURSIVE Closure(_, _)
Closure(reg, S) ==
    LET T == S \cup UNION {IncludesOf(reg[x]) : x \in S \cap DOMAIN reg}
    IN IF T = S THEN S ELSE Closure(reg, T)

\* the names reached from template n through one or more include directives
Reach(reg, n) == IF n \in DOMAIN reg THEN Closure(reg, IncludesOf(reg[n])) ELSE {}

\* n lies on an include cycle, or its includes lead into one
ReachesCycle(reg, n) == \E x \in {n} \cup Reach(reg, n) : x \in Reach(reg, x)

Acyclic(reg) == \A n \in DOMAIN reg : n \notin Reach(reg, n)
NoDangling(reg) == \A n \in DOMAIN reg : IncludesOf(reg[n]) \subseteq DOMAIN reg

\* length of the longest include chain from n, in a registry that is acyclic
\* and has no dangling include
RECURSIVE DepthOf(_, _)
DepthOf(reg, n) ==
    LET inc == IncludesOf(reg[n])
    IN IF inc = {} THEN 0
       ELSE LET d == {DepthOf(reg, x) : x \in inc}
            IN 1 + CHOOSE k \in d : \A j \in d : j <= k

GraphDepth(reg) ==
    LET d == {DepthOf(reg, n) : n \in DOMAIN reg}
    IN CHOOSE k \in d : \A j \in d : j <= k

\* the placeholders of n and of everything it includes
RequiredVars(reg, n) == UNION {VarsOf(reg[x]) : x \in ({n} \cup Reach(reg, n)) \cap DOMAIN reg}

\* the call named a string of 4 or more characters
LongName(c) == ~c.name.isNone /\ Len(c.name.s) >= 4
Registered(c) == LongName(c) /\ c.name.s \in DOMAIN c.reg
Bound(c) == RequiredVars(c.reg, c.name.s) \subseteq DOMAIN c.bindings

\* what the caller observes
Outcome(c) == [kind |-> c.result.kind, err |-> c.result.err,
               missing |-> c.result.missing, text |-> c.result.text]

\* the text a sequence of tokens stands for
RECURSIVE Flat(_)
Flat(text) == IF text = << >> THEN "" ELSE Head(text) \o Flat(Tail(text))

Contains(text, pat) ==
    \E i \in 1..(Len(text) - Len(pat) + 1) : \A k \in 1..Len(pat) : text[i + k - 1] = pat[k]

\* position of the first token equal to tok, 0 when there is none
Pos(text, tok) ==
    LET S == {i \in 1..Len(text) : text[i] = tok}
    IN IF S = {} THEN 0 ELSE CHOOSE i \in S : \A j \in S : i <= j

NoCache == [n \in {} |-> << >>]

\* the renderer called directly on a fresh environment over reg
Rendered(reg, name, ctx) == RenderTemplate(NoCache, reg, name, ctx, 0)

\* The flattened body of a template: every include directive replaced in place
\* by the flattened body of the template it names, every placeholder by its
\* value; with trim, each body first loses one final newline.  For a registry
\* that is acyclic and has no dangling include.
RECURSIVE Verbatim(_, _, _, _)
RECURSIVE VerbatimFrom(_, _, _, _, _, _)
VerbatimFrom(reg, src, a, n, ctx, trim) ==
    LET inc == {i \in a..n : src[i].kind = "include"}
    IN IF inc = {} THEN [k \in 1..(n - a + 1) |-> Emit(src[a + k - 1], ctx)]
       ELSE LET i == CHOOSE x \in inc : \A y \in inc : x <= y
            IN [k \in 1..(i - a) |-> Emit(src[a + k - 1], ctx)]
               \o Verbatim(reg, src[i].v, ctx, trim)
               \o VerbatimFrom(reg, src, i + 1, n, ctx, trim)
Verbatim(reg, name, ctx, trim) ==
    LET src == reg[name]
        n == IF trim /\ Len(src) > 0 /\ src[Len(src)] = NL THEN Len(src) - 1 ELSE Len(src)
    IN VerbatimFrom(reg, src, 1, n, ctx, trim)

Allow == "allow_anonymous_usage_statistics"
ProjectTemplate == "project_template_with_usage_statistics_template.j2"

----------------------------------------------------------------------------
(* The claims *)

\* C1: a call whose template name is None or shorter than 4 characters returns
\* None whatever the bindings: no error, and no template is looked up.
C1_ShortNameReturnsNull ==
    \A c \in calls :
        (c.name.isNone \/ Len(c.name.s) < 4)
            => /\ c.result.kind = "null"
               /\ c.result.err = ""
               /\ c.result.lookups = 0
               /\ c.result.loaded = {}

C1_Witness ==
    /\ \E c \in calls : c.name.isNone /\ c.bindings # NoBindings /\ c.result.kind = "null"
    /\ \E c \in calls : c.name = Name("abc") /\ c.result.kind = "null"

\* C2 (as claimed): rendering a template that needs, directly or through its
\* includes, a variable the bindings lack fails with UnboundVariable naming it.
C2_UnboundVariableRaised ==
    \A c \in calls :
        (Registered(c) /\ ~Bound(c))
            => /\ c.result.kind = "error"
               /\ c.result.err = "UnboundVariable"
               /\ c.result.missing \in RequiredVars(c.reg, c.name.s) \ DOMAIN c.bindings

\* C3 (as claimed): each name of the interface table, given its required
\* bindings, is found in the registry and rendered.
C3_TableNamesRender ==
    \A c \in calls :
        (~c.name.isNone /\ c.name.s \in TableNames /\ Allow \in DOMAIN c.bindings
                        /\ "instance_id" \in DOMAIN c.bindings)
            => c.result.kind = "text"

\* C3 (amended): each name of the interface table with ".j2" appended, given
\* its required bindings, is found in the registry and the entry point returns
\* the renderer's text; for config_version_template.j2 that is the text below.
C3_RegisteredNamesRender ==
    \A c \in calls : \A n \in TableNames :
        (c.name = Name(n \o ".j2") /\ Bound(c))
            => /\ c.result.kind = "text"
               /\ Outcome(c).text = Rendered(c.reg, c.name.s, c.bindings).text
               /\ n = "config_version_template"
                    => Flat(c.result.text) =
                         "\n# config_version refers to the syntactic version of this config file, and is used in maintaining backwards compatibility"
                         \o "\n# It is auto-generated and usually does not need to be changed."
                         \o "\nconfig_version: 2"

C3_Witness ==
    /\ \E c \in calls : c.name = Name("config_version_template.j2") /\ c.bindings = NoBindings
                        /\ c.result.kind = "text"
    /\ \E c \in calls : c.name = Name(ProjectTemplate) /\ Bound(c) /\ c.result.kind = "text"

\* C4 (as claimed): a boolean binding is rendered as the lowercase literal true
\* or false, and instance_id="abc123" as instance_id: abc123.
C4_BooleansLowercase ==
    \A c \in calls :
        /\ (c.name = Name(ProjectTemplate) /\ Allow \in DOMAIN c.bindings)
               => Contains(c.result.text,
                           << "  enabled: ", IF c.bindings[Allow].b THEN "true" ELSE "false" >>)
        /\ (c.name = Name("config_variables_template.j2") /\ "instance_id" \in DOMAIN c.bindings
                /\ c.bindings["instance_id"] = StrVal("abc123"))
               => Contains(c.result.text, << "instance_id: ", "abc123" >>)

\* C4 (amended): a placeholder is replaced by str() of its bound value, so a
\* boolean is rendered as True or False; instance_id="abc123" is rendered as
\* instance_id: abc123, which ends the text.
C4_ValuesRenderedByStr ==
    \A c \in calls :
        /\ (c.name = Name(ProjectTemplate) /\ Allow \in DOMAIN c.bindings)
               => /\ Contains(c.result.text,
                              << "  enabled: ", IF c.bindings[Allow].b THEN "True" ELSE "False" >>)
                  /\ ~Contains(c.result.text, << "  enabled: ", "true" >>)
                  /\ ~Contains(c.result.text, << "  enabled: ", "false" >>)
        /\ (c.name = Name("config_variables_template.j2") /\ "instance_id" \in DOMAIN c.bindings
                /\ c.bindings["instance_id"] = StrVal("abc123"))
               => /\ Contains(c.result.text, << "\n", "instance_id: ", "abc123" >>)
                  /\ c.result.text[Len(c.result.text)] = "abc123"

C4_Witness ==
    /\ \E c \in calls : c.name = Name(ProjectTemplate) /\ Allow \in DOMAIN c.bindings
                        /\ c.bindings[Allow] = BoolVal(TRUE) /\ c.result.kind = "text"
    /\ \E c \in calls : c.name = Name("config_variables_template.j2")
                        /\ "instance_id" \in DOMAIN c.bindings
                        /\ c.bindings["instance_id"] = StrVal("abc123") /\ c.result.kind = "text"

\* C5: a name of 4 or more characters that is no key of the registry, whether
\* it is the requested name or one reached through an include, makes the call
\* fail with TemplateNotFound for that name; no text is returned.
C5_TemplateNotFound ==
    \A c \in calls :
        LongName(c) =>
            /\ c.name.s \notin DOMAIN c.reg
                 => Outcome(c) = [kind |-> "error", err |-> "TemplateNotFound",
                                  missing |-> c.name.s, text |-> << >>]
            /\ (c.name.s \in DOMAIN c.reg /\ ~(Reach(c.reg, c.name.s) \subseteq DOMAIN c.reg))
                 => /\ c.result.kind = "error"
                    /\ c.result.err = "TemplateNotFound"
                    /\ c.result.missing \in Reach(c.reg, c.name.s) \ DOMAIN c.reg
                    /\ c.result.text = << >>

C5_Witness ==
    /\ \E c \in calls : c.name = Name("abcd") /\ c.result.err = "TemplateNotFound"
    /\ \E c \in calls : /\ c.name = Name("data_context_unique_id_project_template.j2")
                        /\ c.result.err = "TemplateNotFound"
                        /\ c.result.missing = "missing_template.j2"

\* C6: includes are resolved depth first, in directive order, under the
\* bindings of the call: the text of the project template is a newline, the
\* rendering of project_help_comment_template (which holds the rendering of
\* config_version_template before its datasources line), a newline, the
\* rendering of project_optional_config_comment_template, a newline and the
\* rendering of anonymized_usage_statistics_template, and the placeholder of
\* that last, included, template shows the value bound at the call.
C6_IncludesSplicedInOrder ==
    \A c \in calls :
        (c.name = Name(ProjectTemplate) /\ c.result.kind = "text")
            => LET T(x) == Rendered(c.reg, x, c.bindings).text
                   text == c.result.text
               IN /\ text = << "\n" >> \o T("project_help_comment_template.j2")
                            \o << "\n" >> \o T("project_optional_config_comment_template.j2")
                            \o << "\n" >> \o T("anonymized_usage_statistics_template.j2")
                  /\ Contains(T("project_help_comment_template.j2"), T("config_version_template.j2"))
                  /\ 0 < Pos(text, "# Welcome to Great Expectations! Always know what to expect from your data.")
                  /\ Pos(text, "# Welcome to Great Expectations! Always know what to expect from your data.")
                        < Pos(text, "config_version: 2")
                  /\ Pos(text, "config_version: 2") < Pos(text, "datasources: {}")
                  /\ Pos(text, "datasources: {}")
                        < Pos(text, "config_variables_file_path: uncommitted/config_variables.yml")
                  /\ Pos(text, "config_variables_file_path: uncommitted/config_variables.yml")
                        < Pos(text, "anonymous_usage_statistics:")
                  /\ Allow \in DOMAIN c.bindings
                        => /\ text[Len(text) - 1] = "  enabled: "
                           /\ text[Len(text)] = Str(c.bindings[Allow])

C6_Witness ==
    \E c \in calls : /\ c.name = Name(ProjectTemplate)
                     /\ Allow \in DOMAIN c.bindings
                     /\ c.result.kind = "text"
                     /\ c.result.depth = 2
                     /\ Contains(c.result.text, << "datasources: {}" >>)

\* C7 (as claimed): rendering a template on, or leading into, an include
\* cycle fails with CyclicInclude, never by exhausting the stack.
C7_CyclicIncludeRaised ==
    \A c \in calls :
        (LongName(c) /\ ReachesCycle(c.reg, c.name.s))
            => c.result.kind = "error" /\ c.result.err = "CyclicInclude"

\* C8: the outcome of a call depends on the template name and the bindings
\* alone, not on the calls made before it (the cache they left), and the text
\* holds INSTANCE_ID only if the caller bound it.
C8_Deterministic ==
    /\ \A c1, c2 \in calls :
           (c1.name = c2.name /\ c1.bindings = c2.bindings /\ c1.reg = c2.reg)
               => Outcome(c1) = Outcome(c2)
    /\ \A c \in calls :
           Contains(c.result.text, << INSTANCE_ID >>)
               => \E k \in DOMAIN c.bindings : c.bindings[k] = StrVal(INSTANCE_ID)

C8_Witness ==
    \E c1, c2 \in calls :
        /\ c1.name = c2.name /\ c1.bindings = c2.bindings
        /\ ~c1.cached /\ c2.cached
        /\ c1.name = Name("config_variables_template.j2")
        /\ Contains(c1.result.text, << INSTANCE_ID >>)
        /\ Contains(c2.result.text, << INSTANCE_ID >>)

\* C9 (as claimed): the text is the flattened body of the template with
\* nothing trimmed, the final newline of each fragment included.
C9_NothingTrimmed ==
    \A c \in calls :
        (Registered(c) /\ Bound(c) /\ c.result.kind = "text")
            => c.result.text = Verbatim(c.reg, c.name.s, c.bindings, FALSE)

\* C9 (amended): the text is the flattened body of the template, except that
\* the requested template and each included fragment lose exactly one final
\* newline; the leading newline and every other literal character are kept.
C9_OnlyFinalNewlineDropped ==
    \A c \in calls :
        (Registered(c) /\ Bound(c) /\ c.result.kind = "text")
            => /\ c.result.text = Verbatim(c.reg, c.name.s, c.bindings, TRUE)
               /\ c.result.text[1] = "\n"
               /\ Len(c.result.text)
                    = Len(Verbatim(c.reg, c.name.s, c.bindings, FALSE))
                      - (1 + Cardinality(Reach(c.reg, c.name.s)))

C9_Witness ==
    /\ \E c \in calls : /\ c.name = Name("config_variables_intro_template.j2")
                        /\ c.result.kind = "text"
                        /\ c.result.text[Len(c.result.text)] = "\n"
    /\ \E c \in calls : /\ c.name = Name(ProjectTemplate) /\ Bound(c)
                        /\ c.result.kind = "text"
                        /\ c.result.text[Len(c.result.text)] # "\n"

\* C10: in the shipped registry every include names a registered template and
\* the include graph is acyclic, so a render never fails on an include and
\* never nests deeper than the depth of the graph.
C10_ShippedSetWellFormed ==
    /\ NoDangling(mapping)
    /\ Acyclic(mapping)
    /\ \A c \in calls :
           /\ c.result.depth <= GraphDepth(mapping)
           /\ c.result.err # "RecursionError"
           /\ Registered(c) => c.result.kind = "text"

C10_Witness ==
    /\ GraphDepth(mapping) = 2
    /\ \E c \in calls : c.name = Name(ProjectTemplate) /\ c.result.depth = 2
                        /\ c.result.lookups = 6

====
